---- MODULE Spec2Model ----
(***************************************************************************)
(* Model of E2.py: the eigenvector-eigenvalue identity, its three          *)
(* reconstructors (eig_sq, eig_sq_perf, eig_sq_vect), the comparator and   *)
(* the __main__ program (single comparison and sensitivity sweep).         *)
(*                                                                         *)
(* Numbers.  A complex number is a pair <<re, im>> of integers.  A real    *)
(* result of a division is an exact rational <<num, den>> in lowest terms  *)
(* with den > 0; <<0, 0>> is nan, <<1, 0>> is +inf and <<-1, 0>> is -inf,  *)
(* which is what a float64 division by zero yields.  Arithmetic is exact:  *)
(* rounding is not modelled.  Arrays are functions over 0..(n - 1), the    *)
(* Python indices.                                                         *)
(***************************************************************************)
EXTENDS Integers, Sequences, FiniteSets, TLC

VARIABLES
    sensitivity_analysis,  \* line 146: the mode switch
    pc,                    \* position of the running program
    range_next,            \* next value the iterator of range(nmin, nmax+1) yields
    i,                     \* loop variable of the sweep, the matrix size
    H,                     \* the matrix under study
    basic, perf, vect,     \* results of the three reconstructors in __main__
    nump,                  \* result of eig_sq_np in __main__
    fpe_basic_array, fpe_perf_array, fpe_vect_array,
    stores,                \* history: positions written by lines 187-189, in order
    visited,               \* history: sizes the loop body was entered with, in order
    plotted,               \* history: the series handed to the plotting calls
    printed,               \* history: values printed by the single comparison
    fault,                 \* [size, delta]: the primitive returns a spectrum of
                           \* length size + delta for an input of that size
    r_basic, r_perf, r_vect, \* what direct calls of the reconstructors returned
    ret                    \* what the last direct call of compare / vij_sq returned

vars == <<sensitivity_analysis, pc, range_next, i, H, basic, perf, vect, nump,
          fpe_basic_array, fpe_perf_array, fpe_vect_array, stores, visited,
          plotted, printed, fault, r_basic, r_perf, r_vect, ret>>

----------------------------------------------------------------------------
(* Bounds of the model *)

\* largest matrix size drawn as a direct input and swept (the source sweeps to 50)
MaxN == 3
\* matrix size of the single comparison (the source uses 8)
SingleN == 2
\* eigenvalues are searched in -EigBound..EigBound
EigBound == 9

----------------------------------------------------------------------------
(* Exact arithmetic *)

Abs(a) == IF a < 0 THEN -a ELSE a

RECURSIVE Gcd(_, _)
Gcd(a, b) == IF b = 0 THEN a ELSE Gcd(b, a % b)

Sign(a) == IF a > 0 THEN 1 ELSE IF a < 0 THEN -1 ELSE 0

\* a / b of two float64 values: nan, +-inf or the exact quotient
Rat(a, b) ==
    IF b = 0 THEN <<Sign(a), 0>>
    ELSE LET g == Gcd(Abs(a), Abs(b))
         IN  <<(Sign(b) * a) \div g, Abs(b) \div g>>

NaN == <<0, 0>>
IsNaN(q) == q = NaN
IsFinite(q) == q[2] > 0

RAdd(p, q) ==
    IF IsFinite(p) /\ IsFinite(q) THEN Rat(p[1] * q[2] + q[1] * p[2], p[2] * q[2])
    ELSE IF IsNaN(p) \/ IsNaN(q) THEN NaN
    ELSE IF ~IsFinite(p) /\ ~IsFinite(q) THEN (IF p = q THEN p ELSE NaN)
    ELSE IF IsFinite(p) THEN q ELSE p

RNeg(q) == <<-q[1], q[2]>>
RSub(p, q) == RAdd(p, RNeg(q))
RAbs(q) == <<Abs(q[1]), q[2]>>
RMul(p, q) ==
    IF IsFinite(p) /\ IsFinite(q) THEN Rat(p[1] * q[1], p[2] * q[2])
    ELSE IF IsNaN(p) \/ IsNaN(q) \/ p[1] = 0 \/ q[1] = 0 THEN NaN
    ELSE <<Sign(p[1]) * Sign(q[1]), 0>>

CAdd(a, b) == <<a[1] + b[1], a[2] + b[2]>>
CNeg(a) == <<-a[1], -a[2]>>
CMul(a, b) == <<a[1] * b[1] - a[2] * b[2], a[1] * b[2] + a[2] * b[1]>>
CConj(a) == <<a[1], -a[2]>>

Size(A) == Cardinality(DOMAIN A)

\* product of f[0..k]
RECURSIVE Prod(_, _)
Prod(f, k) == IF k < 0 THEN 1 ELSE Prod(f, k - 1) * f[k]

\* sum of f[0..k]
RECURSIVE Sum(_, _)
Sum(f, k) == IF k < 0 THEN 0 ELSE Sum(f, k - 1) + f[k]

RECURSIVE RSum(_, _)
RSum(f, k) == IF k < 0 THEN <<0, 1>> ELSE RAdd(RSum(f, k - 1), f[k])

----------------------------------------------------------------------------
(* numpy primitives *)

\* np.delete accepts an index in [-N, N) and raises IndexError otherwise
np_delete_ok(N, obj) == -N <= obj /\ obj < N

\* np_delete without the wrap of a negative index
np_delete_nowrap(a, obj) ==
    [p \in 0..(Size(a) - 2) |-> IF p < obj THEN a[p] ELSE a[p + 1]]

\* np.delete(a, obj, 0): a negative obj counts from the end
np_delete(a, obj) ==
    LET N == Size(a)
        k == IF obj < 0 THEN obj + N ELSE obj
    IN  [p \in 0..(N - 2) |-> IF p < k THEN a[p] ELSE a[p + 1]]

\* np.delete(A, obj, 1)
np_delete_axis1(A, obj) == [r \in DOMAIN A |-> np_delete(A[r], obj)]

\* determinant by expansion along row 0
RECURSIVE Det(_)
RECURSIVE DetSum(_, _)
Det(A) ==
    IF Size(A) = 0 THEN <<1, 0>>
    ELSE IF Size(A) = 1 THEN A[0][0]
    ELSE DetSum(A, Size(A) - 1)
DetSum(A, c) ==
    LET t == CMul(A[0][c], Det(np_delete_axis1(np_delete(A, 0), c)))
        s == IF c % 2 = 0 THEN t ELSE CNeg(t)
    IN  IF c = 0 THEN s ELSE CAdd(DetSum(A, c - 1), s)

\* The Hermitian matrix LAPACK works on: eigvalsh and eigh (UPLO = 'L') read
\* the lower triangle only and take the diagonal as real.
LowerHerm(A) ==
    [r \in DOMAIN A |-> [c \in DOMAIN A |->
        IF r = c THEN <<A[r][c][1], 0>>
        ELSE IF r > c THEN A[r][c] ELSE CConj(A[c][r])]]

\* x0 * I - A
Shift(A, x0) ==
    [r \in DOMAIN A |-> [c \in DOMAIN A |->
        IF r = c THEN <<x0 - A[r][c][1], -A[r][c][2]>> ELSE CNeg(A[r][c])]]

RECURSIVE CSum(_, _)
CSum(f, k) == IF k < 0 THEN <<0, 0>> ELSE CAdd(CSum(f, k - 1), f[k])

MatMul(A, B) ==
    LET n == Size(A)
    IN  [r \in 0..(n - 1) |-> [c \in 0..(n - 1) |->
            CSum([k \in 0..(n - 1) |-> CMul(A[r][k], B[k][c])], n - 1)]]

\* <<tr(A), tr(A^2), ..., tr(A^n)>>, given P = A^k
RECURSIVE PowerTraces(_, _, _)
PowerTraces(A, P, k) ==
    LET tr == Sum([d \in DOMAIN P |-> P[d][d][1]], Size(P) - 1)
    IN  IF k = Size(A) THEN <<tr>>
        ELSE <<tr>> \o PowerTraces(A, MatMul(P, A), k + 1)

\* Newton's identities: es = <<e_0, ..., e_(k-1)>>, the elementary symmetric
\* functions of the eigenvalues, extended to e_n from the power sums p
RECURSIVE Elementary(_, _)
Elementary(p, es) ==
    LET k == Len(es)
        ek == Sum([j \in 0..(k - 1) |->
                     (IF j % 2 = 0 THEN 1 ELSE -1) * es[k - j] * p[j + 1]], k - 1) \div k
    IN  IF k > Len(p) THEN es ELSE Elementary(p, Append(es, ek))

\* coefficients of det(t I - A), from t^n down to t^0
CharCoeffs(A) ==
    LET es == Elementary(PowerTraces(A, A, 1), <<1>>)
    IN  [k \in 1..Len(es) |-> (IF k % 2 = 1 THEN 1 ELSE -1) * es[k]]

\* division of the polynomial cs by (t - x0): the quotient, then the remainder
RECURSIVE Synthetic(_, _, _)
Synthetic(cs, x0, done) ==
    IF Len(done) = Len(cs) THEN done
    ELSE Synthetic(cs, x0,
                   Append(done, cs[Len(done) + 1]
                                  + (IF done = <<>> THEN 0 ELSE x0 * done[Len(done)])))

\* the roots of cs in x0..EigBound, ascending, with multiplicity
RECURSIVE RootScan(_, _)
RootScan(cs, x0) ==
    IF Len(cs) <= 1 \/ x0 > EigBound THEN <<>>
    ELSE LET d == Synthetic(cs, x0, <<>>)
         IN  IF d[Len(d)] = 0
             THEN <<x0>> \o RootScan(SubSeq(d, 1, Len(d) - 1), x0)
             ELSE RootScan(cs, x0 + 1)

\* the integer eigenvalues of M in range, ascending, with multiplicity
IntegerRoots(M) == RootScan(CharCoeffs(LowerHerm(M)), -EigBound)

\* the inputs whose spectrum is integral and in range, the ones the model
\* can compute
Computable(M) == Len(IntegerRoots(M)) = Size(M)

\* the eigenvalues of M, ascending
Spectrum(M) ==
    LET roots == IntegerRoots(M)
    IN  [k \in 0..(Size(M) - 1) |-> roots[k + 1]]

\* a spectrum of the wrong length: cut at the end, or padded with larger values
Resize(s, d) ==
    LET m == Size(s)
    IN  [k \in 0..(m + d - 1) |-> IF k < m THEN s[k] ELSE s[m - 1] + (k - m + 1)]

\* np.linalg.eigvalsh on one matrix
np_linalg_eigvalsh(M) ==
    Resize(Spectrum(M), IF Size(M) = fault.size THEN fault.delta ELSE 0)

\* np.linalg.eigvalsh on a stack of matrices
np_linalg_eigvalsh_stack(Ms) == [k \in DOMAIN Ms |-> np_linalg_eigvalsh(Ms[k])]

\* an entry of abs(eigenvectors) ** 2 that LAPACK's choice of basis decides
Unspecified == <<0, -1>>

\* abs(eigenvectors) ** 2 of np.linalg.eigh: column c holds the unit
\* eigenvector of the c-th eigenvalue.  For a simple eigenvalue the
\* eigenvector spans the columns of adj(lambda I - A), so its squared
\* components are the diagonal of the adjugate over its trace.
np_linalg_eigh_abs2(M) ==
    LET n == Size(M)
        lam == Spectrum(M)
        adj(c, r) == Det(np_delete_axis1(np_delete(Shift(LowerHerm(M), lam[c]), r), r))[1]
        tr(c) == Sum([k \in 0..(n - 1) |-> adj(c, k)], n - 1)
    IN  [r \in 0..(n - 1) |-> [c \in 0..(n - 1) |->
            IF tr(c) = 0 THEN Unspecified ELSE Rat(adj(c, r), tr(c))]]

----------------------------------------------------------------------------
(* E2.py, lines 9-140 *)

\* What a reconstructor call did: err is "none" or the exception raised, res
\* the value returned, fn the function that ran, calls the arguments handed
\* to np.linalg.eigvalsh, in order.
Raised(name, e, log) == [err |-> e, res |-> <<>>, fn |-> name, calls |-> log]
Returned(name, v, log) == [err |-> "none", res |-> v, fn |-> name, calls |-> log]

\* vij_sq with the numerator loop one factor short
vij_sq_short(M, ix, jx) ==
    LET n == Size(M)
        eigenvalues == np_linalg_eigvalsh(M)
    IN  IF ~np_delete_ok(n, jx) THEN Raised("vij_sq", "IndexError", <<M>>)
        ELSE
        LET Mj == np_delete_axis1(np_delete(M, jx), jx)
            minor_eigenvalues == np_linalg_eigvalsh(Mj)
        IN  IF Size(minor_eigenvalues) < n - 2
            THEN Raised("vij_sq", "IndexError", <<M, Mj>>)
            ELSE
            LET numerator ==
                    Prod([k \in 0..(n - 3) |-> eigenvalues[ix] - minor_eigenvalues[k]], n - 3)
                denominator ==
                    Prod([k \in 0..(n - 1) |->
                            IF k = ix THEN 1 ELSE eigenvalues[ix] - eigenvalues[k]], n - 1)
            IN  Returned("vij_sq", Rat(numerator, denominator), <<M, Mj>>)

\* vij_sq with a check of the minor spectrum's length
vij_sq_checked(M, ix, jx) ==
    LET n == Size(M)
        eigenvalues == np_linalg_eigvalsh(M)
    IN  IF ~np_delete_ok(n, jx) THEN Raised("vij_sq", "IndexError", <<M>>)
        ELSE
        LET Mj == np_delete_axis1(np_delete(M, jx), jx)
            minor_eigenvalues == np_linalg_eigvalsh(Mj)
        IN  IF Size(minor_eigenvalues) # n - 1
            THEN Raised("vij_sq", "ValueError", <<M, Mj>>)
            ELSE
            LET numerator ==
                    Prod([k \in 0..(n - 2) |-> eigenvalues[ix] - minor_eigenvalues[k]], n - 2)
                denominator ==
                    Prod([k \in 0..(n - 1) |->
                            IF k = ix THEN 1 ELSE eigenvalues[ix] - eigenvalues[k]], n - 1)
            IN  Returned("vij_sq", Rat(numerator, denominator), <<M, Mj>>)

\* lines 9-34
vij_sq(M, ix, jx) ==
    LET n == Size(M)
        eigenvalues == np_linalg_eigvalsh(M)
    IN  IF ~np_delete_ok(n, jx) THEN Raised("vij_sq", "IndexError", <<M>>)
        ELSE
        LET Mj == np_delete_axis1(np_delete(M, jx), jx)
            minor_eigenvalues == np_linalg_eigvalsh(Mj)
        IN  IF Size(minor_eigenvalues) < n - 1
            THEN Raised("vij_sq", "IndexError", <<M, Mj>>)
            ELSE
            LET numerator ==
                    Prod([k \in 0..(n - 2) |-> eigenvalues[ix] - minor_eigenvalues[k]], n - 2)
                denominator ==
                    Prod([k \in 0..(n - 1) |->
                            IF k = ix THEN 1 ELSE eigenvalues[ix] - eigenvalues[k]], n - 1)
            IN  Returned("vij_sq", Rat(numerator, denominator), <<M, Mj>>)

\* the calls of cells 0..t of a double loop, in order
RECURSIVE CallsUpTo(_, _)
CallsUpTo(cells, t) == IF t < 0 THEN <<>> ELSE CallsUpTo(cells, t - 1) \o cells[t].calls

\* the double loop of eig_sq and eig_sq_perf over cells[t], t = i * n + j
LoopResult(name, n, cells) ==
    LET bad == {t \in DOMAIN cells : cells[t].err # "none"}
    IN  IF bad # {}
        THEN LET t0 == CHOOSE t \in bad : \A u \in bad : t <= u
             IN  Raised(name, cells[t0].err, CallsUpTo(cells, t0))
        ELSE Returned(name,
                      [r \in 0..(n - 1) |-> [c \in 0..(n - 1) |-> cells[r * n + c].res]],
                      CallsUpTo(cells, n * n - 1))

\* eig_sq with the arguments in loop order: res[i, j] = vij_sq(H, i, j)
eig_sq_swapped(M) ==
    LET n == Size(M)
    IN  LoopResult("eig_sq", n,
                   [t \in 0..(n * n - 1) |-> vij_sq(M, t \div n, t % n)])

\* lines 37-46: res[i, j] = vij_sq(H, j, i)
eig_sq(M) ==
    LET n == Size(M)
    IN  LoopResult("eig_sq", n,
                   [t \in 0..(n * n - 1) |-> vij_sq(M, t % n, t \div n)])

\* reduce(lambda x, y: x * y, list): TypeError on an empty list
reduce_ok(list) == Len(list) > 0
RECURSIVE reduce_mul(_)
reduce_mul(list) ==
    IF Len(list) = 1 THEN list[1]
    ELSE reduce_mul(SubSeq(list, 1, Len(list) - 1)) * list[Len(list)]

\* lines 50-70
vij_sq_perf(M, ix, jx) ==
    LET n == Size(M)
        eigenvalues == np_linalg_eigvalsh(M)
    IN  IF ~np_delete_ok(n, jx) THEN Raised("vij_sq_perf", "IndexError", <<M>>)
        ELSE
        LET Mj == np_delete_axis1(np_delete(M, jx), jx)
            minor_eigenvalues == np_linalg_eigvalsh(Mj)
            eigenvaluei == eigenvalues[ix]
        IN  IF Size(minor_eigenvalues) < n - 1
            THEN Raised("vij_sq_perf", "IndexError", <<M, Mj>>)
            ELSE
            LET numlist == [k \in 1..(n - 1) |-> eigenvaluei - minor_eigenvalues[k - 1]]
                denlist == [k \in 1..(n - 1) |->
                              eigenvaluei - eigenvalues[IF k - 1 < ix THEN k - 1 ELSE k]]
            IN  IF ~reduce_ok(numlist) \/ ~reduce_ok(denlist)
                THEN Raised("vij_sq_perf", "TypeError", <<M, Mj>>)
                ELSE Returned("vij_sq_perf",
                              Rat(reduce_mul(numlist), reduce_mul(denlist)), <<M, Mj>>)

\* lines 73-82: res[i, j] = vij_sq_perf(H, j, i)
eig_sq_perf(M) ==
    LET n == Size(M)
    IN  LoopResult("eig_sq_perf", n,
                   [t \in 0..(n * n - 1) |-> vij_sq_perf(M, t % n, t \div n)])

\* vect_minors filling the stack in reverse
vect_minors_reversed(M) ==
    [k \in 0..(Size(M) - 1) |->
        np_delete_axis1(np_delete(M, Size(M) - 1 - k), Size(M) - 1 - k)]

\* lines 95-98: minors[i] = np.delete(np.delete(H, i, 0), i, 1)
vect_minors(M) ==
    [k \in 0..(Size(M) - 1) |-> np_delete_axis1(np_delete(M, k), k)]

\* lines 96-99: eig_matrix[i] = np.delete(eigvals, i)
vect_eig_matrix(eigvals) ==
    [k \in 0..(Size(eigvals) - 1) |-> np_delete(eigvals, k)]

\* eig_sq_vect without the transposition of the numerators
eig_sq_vect_noT(M) ==
    LET n == Size(M)
        eigvals == np_linalg_eigvalsh(M)
        minors == vect_minors(M)
        eig_matrix == vect_eig_matrix(eigvals)
        minor_eigvals == np_linalg_eigvalsh_stack(minors)
        numerator == [a \in 0..(n - 1) |-> [m \in 0..(n - 1) |->
                        Prod([k \in DOMAIN minor_eigvals[m] |-> eigvals[a] - minor_eigvals[m][k]],
                             Size(minor_eigvals[m]) - 1)]]
        denominator == [a \in 0..(n - 1) |->
                          Prod([k \in 0..(n - 2) |-> eigvals[a] - eig_matrix[a][k]], n - 2)]
    IN  Returned("eig_sq_vect",
                 [r \in 0..(n - 1) |-> [c \in 0..(n - 1) |->
                     Rat(numerator[r][c], denominator[c])]],
                 <<M, minors>>)

\* lines 87-111
eig_sq_vect(M) ==
    LET n == Size(M)
        eigvals == np_linalg_eigvalsh(M)
        minors == vect_minors(M)
        eig_matrix == vect_eig_matrix(eigvals)
        minor_eigvals == np_linalg_eigvalsh_stack(minors)
        \* np.prod(eigvals[i] - minor_eigvals, axis=1)
        numerator == [a \in 0..(n - 1) |-> [m \in 0..(n - 1) |->
                        Prod([k \in DOMAIN minor_eigvals[m] |-> eigvals[a] - minor_eigvals[m][k]],
                             Size(minor_eigvals[m]) - 1)]]
        denominator == [a \in 0..(n - 1) |->
                          Prod([k \in 0..(n - 2) |-> eigvals[a] - eig_matrix[a][k]], n - 2)]
    IN  \* np.divide(numerator.T, denominator.reshape((1, n)))
        Returned("eig_sq_vect",
                 [r \in 0..(n - 1) |-> [c \in 0..(n - 1) |->
                     Rat(numerator[c][r], denominator[c])]],
                 <<M, minors>>)

\* lines 116-119
eig_sq_np(M) == np_linalg_eigh_abs2(M)

\* line 127: tol = 1e-12, held as <<1, a, b>> for 1 / (a * b)
tol == <<1, 1000000, 1000000>>

\* q < t for a rational q >= 0 or a nan / inf (never below anything)
RLess(q, t) == IsFinite(q) /\ q[1] <= ((q[2] - 1) \div t[2]) \div t[3]

\* line 140: abs(res - eig_sq_np(H)) < tol, entrywise
WithinTol(res, ref) ==
    [r \in DOMAIN res |-> [c \in DOMAIN res |->
        IF ~IsFinite(res[r][c]) THEN FALSE
        ELSE RLess(RAbs(RSub(res[r][c], ref[r][c])), tol)]]

\* compare with a last branch that takes every other mode
compare_noraise(M, mode) ==
    LET rec == IF mode = 0 THEN eig_sq(M)
               ELSE IF mode = 1 THEN eig_sq_perf(M)
               ELSE eig_sq_vect(M)
    IN  IF rec.err # "none"
        THEN [err |-> rec.err, res |-> <<>>, ran |-> <<rec.fn>>, calls |-> rec.calls]
        ELSE [err |-> "none", res |-> WithinTol(rec.res, eig_sq_np(M)),
              ran |-> <<rec.fn, "eig_sq_np">>, calls |-> rec.calls]

\* lines 125-140.  ran lists the functions compare called.
compare(M, mode) ==
    IF mode \notin {0, 1, 2}
    THEN [err |-> "IndexError", res |-> <<>>, ran |-> <<>>, calls |-> <<>>]
    ELSE LET rec == IF mode = 0 THEN eig_sq(M)
                    ELSE IF mode = 1 THEN eig_sq_perf(M)
                    ELSE eig_sq_vect(M)
         IN  IF rec.err # "none"
             THEN [err |-> rec.err, res |-> <<>>, ran |-> <<rec.fn>>, calls |-> rec.calls]
             ELSE [err |-> "none", res |-> WithinTol(rec.res, eig_sq_np(M)),
                   ran |-> <<rec.fn, "eig_sq_np">>, calls |-> rec.calls]

----------------------------------------------------------------------------
(* E2.py, lines 143-199: __main__ *)

\* line 171
nmin == 2
\* line 172 (50 in the source)
nmax == MaxN

\* values np.random.rand returns, in units of 1/8
RandVals == {0, 2, 4, 6}

\* the real part a draw puts on the diagonal
DiagRe(k) == IF k = 0 THEN 4 ELSE IF k = 1 THEN 0 ELSE 4 * k - 6

\* np.random.rand(n, n) + 1j * np.random.rand(n, n): the draws considered have
\* the imaginary part e on the diagonal, u at [1, 0], w at [0, 1], 0 elsewhere
RawDraw(n, e, u, w) ==
    [r \in 0..(n - 1) |-> [c \in 0..(n - 1) |->
        IF r = c THEN <<DiagRe(r), e>>
        ELSE IF r = 1 /\ c = 0 THEN u
        ELSE IF r = 0 /\ c = 1 THEN w
        ELSE <<0, 0>>]]

\* H.T
Transpose(A) == [r \in DOMAIN A |-> [c \in DOMAIN A |-> A[c][r]]]

\* 0.5 * z, exact on the even values drawn
Half(z) == <<z[1] \div 2, z[2] \div 2>>

\* lines 155 and 179: H = 0.5 * (H + H.T)
Symmetrize(A) ==
    [r \in DOMAIN A |-> [c \in DOMAIN A |-> Half(CAdd(A[r][c], Transpose(A)[r][c]))]]

\* the spectrum of M and of each of its minors is integral and in range
AllComputable(M) ==
    /\ Computable(M)
    /\ \A k \in 0..(Size(M) - 1) : Computable(np_delete_axis1(np_delete(M, k), k))

SimpleSpectrum(M) ==
    \A k \in 0..(Size(M) - 2) : Spectrum(M)[k] < Spectrum(M)[k + 1]

\* the matrices __main__ may hold after line 155 / 179
RandDraws(n) ==
    LET Cx == RandVals \X RandVals
        sym == {Symmetrize(RawDraw(n, e, u, w)) : e \in {0, 2}, u \in Cx, w \in Cx}
    IN  {M \in sym : AllComputable(M) /\ SimpleSpectrum(M)}

\* LA.norm(A), the Frobenius norm of a real matrix: the square root of sq
LA_norm(A) ==
    LET n == Size(A)
    IN  [sq |-> RSum([t \in 0..(n * n - 1) |->
                        RMul(A[t \div n][t % n], A[t \div n][t % n])], n * n - 1)]

\* lines 184-186: 100.*(LA.norm(x)-LA.norm(nump))/LA.norm(x), kept as the
\* expression over the two norms
Fpe(x, ref) == [scale |-> 100, minuend |-> LA_norm(x), subtrahend |-> LA_norm(ref),
                divisor |-> LA_norm(x)]

\* np.zeros([m])
np_zeros(m) == [k \in 0..(m - 1) |-> <<0, 1>>]

\* np.arange(a, b)
np_arange(a, b) == [k \in 0..(b - a - 1) |-> a + k]

NoFault == [size |-> 0, delta |-> 0]

Init ==
    /\ sensitivity_analysis \in BOOLEAN
    /\ pc = "start"
    /\ range_next = nmin
    /\ i = 0
    /\ H = <<>>
    /\ basic = <<>> /\ perf = <<>> /\ vect = <<>> /\ nump = <<>>
    /\ fpe_basic_array = <<>> /\ fpe_perf_array = <<>> /\ fpe_vect_array = <<>>
    /\ stores = <<>> /\ visited = <<>> /\ plotted = <<>> /\ printed = <<>>
    /\ fault = NoFault
    /\ r_basic = <<>> /\ r_perf = <<>> /\ r_vect = <<>> /\ ret = <<>>

api_vars == <<fault, r_basic, r_perf, r_vect, ret>>
sweep_vars == <<range_next, i, fpe_basic_array, fpe_perf_array, fpe_vect_array,
                stores, visited, plotted>>

\* lines 153-155
SingleGen ==
    /\ pc = "start" /\ ~sensitivity_analysis
    /\ \E M \in RandDraws(SingleN) : H' = M
    /\ pc' = "single"
    /\ UNCHANGED <<sensitivity_analysis, basic, perf, vect, nump, printed>>
    /\ UNCHANGED sweep_vars /\ UNCHANGED api_vars

\* lines 158-168
SingleCompare ==
    /\ pc = "single"
    /\ basic' = eig_sq(H).res
    /\ perf' = eig_sq_perf(H).res
    /\ vect' = eig_sq_vect(H).res
    /\ nump' = eig_sq_np(H)
    /\ printed' = <<basic'[0][1], perf'[0][1], vect'[0][1], nump'[0][1]>>
    /\ pc' = "done"
    /\ UNCHANGED <<sensitivity_analysis, H>>
    /\ UNCHANGED sweep_vars /\ UNCHANGED api_vars

\* lines 171-175
SweepAlloc ==
    /\ pc = "start" /\ sensitivity_analysis
    /\ fpe_basic_array' = np_zeros(nmax - nmin + 1)
    /\ fpe_perf_array' = np_zeros(nmax - nmin + 1)
    /\ fpe_vect_array' = np_zeros(nmax - nmin + 1)
    /\ pc' = "loop"
    /\ UNCHANGED <<sensitivity_analysis, range_next, i, H, basic, perf, vect, nump,
                   stores, visited, plotted, printed>>
    /\ UNCHANGED api_vars

\* line 176: for i in range(nmin, nmax+1)
LoopNext ==
    /\ pc = "loop"
    /\ IF range_next <= nmax
       THEN /\ i' = range_next
            /\ range_next' = range_next + 1
            /\ visited' = Append(visited, range_next)
            /\ pc' = "gen"
       ELSE /\ pc' = "plot"
            /\ UNCHANGED <<i, range_next, visited>>
    /\ UNCHANGED <<sensitivity_analysis, H, basic, perf, vect, nump, fpe_basic_array,
                   fpe_perf_array, fpe_vect_array, stores, plotted, printed>>
    /\ UNCHANGED api_vars

\* lines 177-179
SweepGen ==
    /\ pc = "gen"
    /\ \E M \in RandDraws(i) : H' = M
    /\ pc' = "basic"
    /\ UNCHANGED <<sensitivity_analysis, basic, perf, vect, nump, printed>>
    /\ UNCHANGED sweep_vars /\ UNCHANGED api_vars

\* line 180
SweepBasic ==
    /\ pc = "basic"
    /\ basic' = eig_sq(H).res
    /\ pc' = "perf"
    /\ UNCHANGED <<sensitivity_analysis, H, perf, vect, nump, printed>>
    /\ UNCHANGED sweep_vars /\ UNCHANGED api_vars

\* line 181
SweepPerf ==
    /\ pc = "perf"
    /\ perf' = eig_sq_perf(H).res
    /\ pc' = "vect"
    /\ UNCHANGED <<sensitivity_analysis, H, basic, vect, nump, printed>>
    /\ UNCHANGED sweep_vars /\ UNCHANGED api_vars

\* line 182
SweepVect ==
    /\ pc = "vect"
    /\ vect' = eig_sq_vect(H).res
    /\ pc' = "nump"
    /\ UNCHANGED <<sensitivity_analysis, H, basic, perf, nump, printed>>
    /\ UNCHANGED sweep_vars /\ UNCHANGED api_vars

\* line 183
SweepNump ==
    /\ pc = "nump"
    /\ nump' = eig_sq_np(H)
    /\ pc' = "store"
    /\ UNCHANGED <<sensitivity_analysis, H, basic, perf, vect, printed>>
    /\ UNCHANGED sweep_vars /\ UNCHANGED api_vars

\* StoreIndex counting from the size itself
StoreIndexOffByOne(size) == size - nmin + 1

\* the position lines 187-189 write
StoreIndex(size) == size - nmin

\* lines 184-189
SweepStore ==
    /\ pc = "store"
    /\ fpe_basic_array' = [fpe_basic_array EXCEPT ![StoreIndex(i)] = Fpe(basic, nump)]
    /\ fpe_perf_array' = [fpe_perf_array EXCEPT ![StoreIndex(i)] = Fpe(perf, nump)]
    /\ fpe_vect_array' = [fpe_vect_array EXCEPT ![StoreIndex(i)] = Fpe(vect, nump)]
    /\ stores' = Append(stores, StoreIndex(i))
    /\ pc' = "loop"
    /\ UNCHANGED <<sensitivity_analysis, range_next, i, H, basic, perf, vect, nump,
                   visited, plotted, printed>>
    /\ UNCHANGED api_vars

\* lines 191-199: the series handed to plt.scatter
Plot ==
    /\ pc = "plot"
    /\ plotted' = Append(plotted, [x |-> np_arange(nmin, nmax + 1),
                                   series |-> <<fpe_basic_array, fpe_perf_array,
                                                fpe_vect_array>>])
    /\ pc' = "done"
    /\ UNCHANGED <<sensitivity_analysis, range_next, i, H, basic, perf, vect, nump,
                   fpe_basic_array, fpe_perf_array, fpe_vect_array, stores, visited,
                   printed>>
    /\ UNCHANGED api_vars

\* PrimitiveFails with the failing size skipped and the sweep going on
PrimitiveFailsSkipped ==
    /\ pc \in {"basic", "perf", "vect", "nump"}
    /\ pc' = "loop"
    /\ UNCHANGED <<sensitivity_analysis, H, basic, perf, vect, nump, printed>>
    /\ UNCHANGED sweep_vars /\ UNCHANGED api_vars

\* np.linalg.eigvalsh / eigh raise LinAlgError when the iteration does not
\* converge; nothing in __main__ catches it
PrimitiveFails ==
    /\ pc \in {"single", "basic", "perf", "vect", "nump"}
    /\ pc' = "crashed"
    /\ UNCHANGED <<sensitivity_analysis, H, basic, perf, vect, nump, printed>>
    /\ UNCHANGED sweep_vars /\ UNCHANGED api_vars

Next ==
    \/ SingleGen \/ SingleCompare
    \/ SweepAlloc \/ LoopNext \/ SweepGen \/ SweepBasic \/ SweepPerf \/ SweepVect
    \/ SweepNump \/ SweepStore \/ Plot \/ PrimitiveFails

Spec == Init /\ [][Next]_vars

\* the positions of __main__
Labels == {"start", "single", "loop", "gen", "basic", "perf", "vect", "nump", "store",
           "plot", "done", "crashed"}

\* the interpreter leaves the statement it is at, until the program has ended
Executes ==
    /\ pc \notin {"done", "crashed"}
    /\ \E l \in Labels \ {pc} : pc' = l

\* every step of Next moves pc, so this is weak fairness of Next, stated over
\* the position alone
FairSpec == Spec /\ WF_pc(Executes)

----------------------------------------------------------------------------
(* Direct calls of the functions of E2.py on Hermitian inputs *)

DiagVals == {0, 3}
OffVals == {<<2, 0>>, <<0, 2>>}

\* the Hermitian matrix with diagonal d and, when q < p, b at [p, q]
HermMatrix(n, d, p, q, b) ==
    [r \in 0..(n - 1) |-> [c \in 0..(n - 1) |->
        IF r = c THEN <<d[r], 0>>
        ELSE IF q < p /\ r = p /\ c = q THEN b
        ELSE IF q < p /\ r = q /\ c = p THEN CConj(b)
        ELSE <<0, 0>>]]

HermSamples(n) ==
    LET all == {HermMatrix(n, d, p, q, b) :
                    d \in [0..(n - 1) -> DiagVals], p \in 0..(n - 1), q \in 0..(n - 1),
                    b \in OffVals}
    IN  {M \in all : AllComputable(M)}

HermInputs == UNION {HermSamples(n) : n \in 2..MaxN}

\* values passed as mode, as j and as i
ModeArgs == (-1)..3
JArgs(n) == (-n - 1)..n
IArgs(n) == {0, n - 1}

InitApi ==
    /\ sensitivity_analysis = FALSE
    /\ pc = "api"
    /\ range_next = nmin
    /\ i = 0
    /\ H \in HermInputs
    /\ basic = <<>> /\ perf = <<>> /\ vect = <<>> /\ nump = <<>>
    /\ fpe_basic_array = <<>> /\ fpe_perf_array = <<>> /\ fpe_vect_array = <<>>
    /\ stores = <<>> /\ visited = <<>> /\ plotted = <<>> /\ printed = <<>>
    /\ r_basic = <<>> /\ r_perf = <<>> /\ r_vect = <<>> /\ ret = <<>>

\* the primitive behaves
InitRecon == InitApi /\ fault = NoFault

\* the primitive returns a spectrum one too short or one too long for a minor
InitFault == InitApi /\ \E d \in {-1, 1} : fault = [size |-> Size(H) - 1, delta |-> d]

main_vars == <<sensitivity_analysis, range_next, i, H, basic, perf, vect, nump,
               fpe_basic_array, fpe_perf_array, fpe_vect_array, stores, visited,
               plotted, printed, fault>>

CallEigSq ==
    /\ pc = "api"
    /\ r_basic' = eig_sq(H)
    /\ pc' = "api_perf"
    /\ UNCHANGED <<r_perf, r_vect, ret>> /\ UNCHANGED main_vars

CallEigSqPerf ==
    /\ pc = "api_perf"
    /\ r_perf' = eig_sq_perf(H)
    /\ pc' = "api_vect"
    /\ UNCHANGED <<r_basic, r_vect, ret>> /\ UNCHANGED main_vars

CallEigSqVect ==
    /\ pc = "api_vect"
    /\ r_vect' = eig_sq_vect(H)
    /\ pc' = "api_end"
    /\ UNCHANGED <<r_basic, r_perf, ret>> /\ UNCHANGED main_vars

\* line 125: mode=0 when the caller gives none
compare_default(M) == compare(M, 0)

CallCompare ==
    /\ pc = "api"
    /\ \E m \in ModeArgs : ret' = [fn |-> "compare", args |-> <<m>>, out |-> compare(H, m)]
    /\ pc' = "api_ret"
    /\ UNCHANGED <<r_basic, r_perf, r_vect>> /\ UNCHANGED main_vars

CallCompareDefault ==
    /\ pc = "api"
    /\ ret' = [fn |-> "compare", args |-> <<>>, out |-> compare_default(H)]
    /\ pc' = "api_ret"
    /\ UNCHANGED <<r_basic, r_perf, r_vect>> /\ UNCHANGED main_vars

CallVijSq ==
    /\ pc = "api"
    /\ \E ix \in IArgs(Size(H)), jx \in JArgs(Size(H)) :
          ret' = [fn |-> "vij_sq", args |-> <<ix, jx>>, out |-> vij_sq(H, ix, jx)]
    /\ pc' = "api_ret"
    /\ UNCHANGED <<r_basic, r_perf, r_vect>> /\ UNCHANGED main_vars

CallVijSqPerf ==
    /\ pc = "api"
    /\ \E ix \in IArgs(Size(H)), jx \in JArgs(Size(H)) :
          ret' = [fn |-> "vij_sq_perf", args |-> <<ix, jx>>, out |-> vij_sq_perf(H, ix, jx)]
    /\ pc' = "api_ret"
    /\ UNCHANGED <<r_basic, r_perf, r_vect>> /\ UNCHANGED main_vars

NextApi ==
    \/ CallEigSq \/ CallEigSqPerf \/ CallEigSqVect
    \/ CallCompare \/ CallCompareDefault \/ CallVijSq \/ CallVijSqPerf

SpecRecon == InitRecon /\ [][NextApi]_vars

SpecFault == InitFault /\ [][NextApi]_vars

----------------------------------------------------------------------------
(* Properties *)

\* M without row j and column j, entry by entry
RemoveRC(M, j) ==
    [r \in 0..(Size(M) - 2) |-> [c \in 0..(Size(M) - 2) |->
        M[IF r < j THEN r ELSE r + 1][IF c < j THEN c ELSE c + 1]]]

\* the product of f over the index set S
RECURSIVE ProdOver(_, _)
ProdOver(S, f) ==
    IF S = {} THEN 1
    ELSE LET x == CHOOSE y \in S : TRUE
         IN  f[x] * ProdOver(S \ {x}, f)

\* the sum of the rationals f over the index set S
RECURSIVE RSumOver(_, _)
RSumOver(S, f) ==
    IF S = {} THEN <<0, 1>>
    ELSE LET x == CHOOSE y \in S : TRUE
         IN  RAdd(f[x], RSumOver(S \ {x}, f))

\* the identity: |v_col[row]|^2 from the spectrum lam of M and the spectrum
\* mu of the minor without row / column `row`
IdentityEntry(M, lam, mu, col) ==
    Rat(ProdOver(DOMAIN mu, [k \in DOMAIN mu |-> lam[col] - mu[k]]),
        ProdOver(DOMAIN lam \ {col}, [k \in DOMAIN lam |-> lam[col] - lam[k]]))

IdentityMatrix(M) ==
    LET lam == Spectrum(M)
        idx == 0..(Size(M) - 1)
    IN  [row \in idx |->
            LET mu == Spectrum(RemoveRC(M, row))
            IN  [col \in idx |-> IdentityEntry(M, lam, mu, col)]]

BasicCalled == pc \in {"api_perf", "api_vect", "api_end"}
PerfCalled == pc \in {"api_vect", "api_end"}
VectCalled == pc = "api_end"

\* a rational that is neither 0, 1, nan nor inf
ProperFraction(q) == q[2] > 1

C2_CrossVariantEquivalence ==
    VectCalled =>
        /\ r_basic.err = "none" /\ r_perf.err = "none" /\ r_vect.err = "none"
        /\ r_basic.res = r_perf.res
        /\ r_perf.res = r_vect.res

C2_Witness ==
    /\ VectCalled /\ r_perf.err = "none"
    /\ \E r \in DOMAIN H, c \in DOMAIN H :
          ProperFraction(r_perf.res[r][c]) /\ r_perf.res[r][c] # r_perf.res[c][r]

ColumnSum(R, col) == RSumOver(DOMAIN R, [r \in DOMAIN R |-> R[r][col]])

\* |q - 1| < 1e-9
NearOne(q) ==
    /\ IsFinite(q)
    /\ Abs(q[1] - q[2]) <= ((q[2] - 1) \div 1000) \div 1000000

ColumnsSumToOne(R) == \A col \in DOMAIN R : NearOne(ColumnSum(R, col))

Agree(a, b) ==
    /\ IsFinite(a)
    /\ Abs(a[1] * b[2] - b[1] * a[2]) <= ((a[2] * b[2] - 1) \div 1000000) \div 1000000

AgreementMatrix(M) ==
    LET E == IdentityMatrix(M)
        ref == eig_sq_np(M)
    IN  [r \in DOMAIN M |-> [c \in DOMAIN M |-> Agree(E[r][c], ref[r][c])]]

CompareReturned == pc = "api_ret" /\ ret.fn = "compare"

\* the mode compare ran with: the argument, or 0 when none was given
ModeOf(call) == IF call.args = <<>> THEN 0 ELSE call.args[1]

\* C4: compare raises for a mode other than 0, 1, 2 before calling anything;
\* for mode 0, 1, 2 (0 when none is given) it runs exactly eig_sq,
\* eig_sq_perf, eig_sq_vect and then the reference, and returns the matrix
\* of |variant - reference| < 1e-12.
C4_CompareDispatch ==
    CompareReturned =>
        LET m == ModeOf(ret)
            out == ret.out
        IN  /\ m \notin {0, 1, 2} =>
                out.err = "IndexError" /\ out.ran = <<>> /\ out.calls = <<>>
            /\ m \in {0, 1, 2} =>
                /\ out.err = "none"
                /\ out.ran = <<(IF m = 0 THEN "eig_sq"
                                ELSE IF m = 1 THEN "eig_sq_perf" ELSE "eig_sq_vect"),
                               "eig_sq_np">>
                /\ out.res = AgreementMatrix(H)

C4_Witness ==
    /\ CompareReturned /\ ret.args = <<3>>
    /\ ret.out.err = "IndexError" /\ ret.out.calls = <<>>

VijReturned == pc = "api_ret" /\ ret.fn \in {"vij_sq", "vij_sq_perf"}

\* C5 as stated: the minor extraction of vij_sq / vij_sq_perf raises for every
\* j outside [0, n), negative j included, and removes row and column j for j
\* in [0, n).
C5_Original ==
    VijReturned =>
        LET j == ret.args[2]
            n == Size(H)
        IN  /\ j \notin 0..(n - 1) => ret.out.err = "IndexError"
            /\ j \in 0..(n - 1) =>
                ret.out.err = "none" /\ ret.out.calls[2] = RemoveRC(H, j)

\* C5 amended: the extraction raises IndexError for every j outside [-n, n);
\* for j in [0, n) it removes row and column j; for j in [-n, 0) it does not
\* raise and removes row and column n + j.
C5_MinorExtraction ==
    VijReturned =>
        LET j == ret.args[2]
            n == Size(H)
        IN  /\ (j < -n \/ j >= n) => ret.out.err = "IndexError"
            /\ j \in 0..(n - 1) =>
                ret.out.err = "none" /\ ret.out.calls[2] = RemoveRC(H, j)
            /\ j \in (-n)..(-1) =>
                ret.out.err = "none" /\ ret.out.calls[2] = RemoveRC(H, n + j)

C5_Witness ==
    /\ VijReturned /\ ret.fn = "vij_sq_perf" /\ ret.args[2] = -1
    /\ ret.out.err = "none"
    /\ ret.out.calls[2] = RemoveRC(H, Size(H) - 1)

\* the value eig_sq_vect forms at [row][col] from whatever spectrum the
\* primitive returned for the minor
ProductOfAll(M, row, col) ==
    LET lam == Spectrum(M)
        mu == Resize(Spectrum(RemoveRC(M, row)), fault.delta)
    IN  IdentityEntry(M, lam, mu, col)

ProductOfAllMatrix(M) ==
    [row \in DOMAIN M |-> [col \in DOMAIN M |-> ProductOfAll(M, row, col)]]

IsHermitian(M) == \A r \in DOMAIN M, c \in DOMAIN M : M[r][c] = CConj(M[c][r])

\* C7: every matrix __main__ hands to the reconstructors and to the
\* primitive equals its own conjugate transpose.
C7_Original ==
    pc \in {"single", "basic", "perf", "vect", "nump"} => IsHermitian(H)

\* the Frobenius norm, as the square root of the sum of the squared entries
NormOf(A) ==
    LET cells == (DOMAIN A) \X (DOMAIN A)
    IN  [sq |-> RSumOver(cells, [rc \in cells |-> RMul(A[rc[1]][rc[2]], A[rc[1]][rc[2]])])]

\* 100 * (norm(x) - norm(ref)) / norm(x)
Percentage(x, ref) ==
    [scale |-> 100, minuend |-> NormOf(x), subtrahend |-> NormOf(ref), divisor |-> NormOf(x)]

SweepLength == nmax - nmin + 1

\* C8: the sweep enters its body with the sizes nmin, nmin + 1, ... in this
\* order, writes for size n the three percentages at position n - nmin, a
\* position within the series and never written before, and ends with
\* nmax - nmin + 1 positions written in series of that length.
C8_SweepSeries ==
    sensitivity_analysis =>
        /\ \A k \in 1..Len(visited) : visited[k] = nmin + k - 1
        /\ Len(stores) <= Len(visited)
        /\ \A k \in 1..Len(stores) :
              /\ stores[k] = visited[k] - nmin
              /\ stores[k] \in 0..(nmax - nmin)
              /\ \A m \in 1..Len(stores) : m # k => stores[m] # stores[k]
        /\ (pc = "loop" /\ stores # <<>>) =>
              LET pos == stores[Len(stores)]
              IN  /\ pos = i - nmin
                  /\ fpe_basic_array[pos] = Percentage(basic, nump)
                  /\ fpe_perf_array[pos] = Percentage(perf, nump)
                  /\ fpe_vect_array[pos] = Percentage(vect, nump)
        /\ pc \in {"plot", "done"} =>
              /\ Len(visited) = SweepLength
              /\ {stores[k] : k \in 1..Len(stores)} = 0..(nmax - nmin)
              /\ DOMAIN fpe_basic_array = 0..(SweepLength - 1)
              /\ DOMAIN fpe_perf_array = 0..(SweepLength - 1)
              /\ DOMAIN fpe_vect_array = 0..(SweepLength - 1)

C8_Witness ==
    /\ sensitivity_analysis /\ pc = "done"
    /\ Len(stores) = SweepLength /\ Len(plotted) = 1
    /\ plotted[1].series = <<fpe_basic_array, fpe_perf_array, fpe_vect_array>>

\* C9: a failure inside the sweep ends the program: nothing runs after it,
\* the position of the failing size and of every later size stays unwritten
\* and nothing is plotted; a sweep that ends without failure has run
\* nmax - nmin + 1 iterations, written as many positions and plotted once;
\* and the program always ends.
C9_FatalFailure ==
    /\ []((pc = "crashed" /\ sensitivity_analysis) =>
            /\ plotted = <<>>
            /\ Len(stores) = Len(visited) - 1
            /\ \A k \in 1..Len(stores) : stores[k] < i - nmin)
    /\ [][pc # "crashed"]_vars
    /\ []((pc = "done" /\ sensitivity_analysis) =>
            /\ Len(visited) = SweepLength
            /\ Len(stores) = SweepLength
            /\ Len(plotted) = 1)
    /\ <>(pc \in {"done", "crashed"})

C9_Witness ==
    /\ pc = "crashed" /\ sensitivity_analysis
    /\ Len(visited) = 2 /\ Len(stores) = 1 /\ plotted = <<>>

\* the full spectrum without entry k, entry by entry
Without(lam, k) == [p \in 0..(Size(lam) - 2) |-> lam[IF p < k THEN p ELSE p + 1]]

\* C10: eig_sq_vect calls the primitive twice, on the matrix and on the stack
\* whose entry k is the matrix without row / column k, and pairs it with the
\* spectrum without entry k; eig_sq and eig_sq_perf call it 2 * n * n times,
\* for each cell of the output on the matrix and on the minor of the cell's
\* row.
C10_PrimitiveCalls ==
    LET n == Size(H)
        scalar(calls) ==
            /\ Len(calls) = 2 * n * n
            /\ \A t \in 0..(n * n - 1) :
                  calls[2 * t + 1] = H /\ calls[2 * t + 2] = RemoveRC(H, t \div n)
    IN  /\ BasicCalled => scalar(r_basic.calls)
        /\ PerfCalled => scalar(r_perf.calls)
        /\ VectCalled =>
              /\ Len(r_vect.calls) = 2
              /\ r_vect.calls[1] = H
              /\ DOMAIN r_vect.calls[2] = 0..(n - 1)
              /\ \A k \in 0..(n - 1) :
                    /\ r_vect.calls[2][k] = RemoveRC(H, k)
                    /\ vect_eig_matrix(np_linalg_eigvalsh(H))[k] = Without(Spectrum(H), k)

C10_Witness ==
    /\ VectCalled /\ Size(H) = 3
    /\ Len(r_basic.calls) = 18 /\ Len(r_perf.calls) = 18 /\ Len(r_vect.calls) = 2

====
